---- MODULE Spec2Model ----
(***************************************************************************)
(* Library Management System (src/project2.cpp).                           *)
(*                                                                         *)
(* State: the inventory (std::vector<Book>, with its buffer and capacity,  *)
(* because users keep Book* into that buffer), the users (std::vector<User>*)
(* with their borrowedBooks pointer lists and fines) and the wall clock    *)
(* read by time(0).  Sequences are 1-based here; the menu's 0-based        *)
(* indices are shifted by one when they select an element.                 *)
(*                                                                         *)
(* A Book* is [buf, idx]: the buffer it was taken from and the slot in it. *)
(* Money is counted in whole dollars (fines are multiples of $2, payments  *)
(* are drawn from the integers).                                           *)
(***************************************************************************)
EXTENDS Integers, Sequences, FiniteSets, TLC

\* ---- bounds of the model -------------------------------------------------
MaxAdds  == 2      \* books ever added
MaxUsers == 2      \* users ever registered
MaxTime  == 7      \* last clock value
MaxFine  == 4      \* fine balances are kept at or below this

\* ---- constants of the program --------------------------------------------
LoanPeriod == 5    \* book->setDueDate(now + 5)
FineRate   == 2    \* fines += daysOverdue * 2

\* the moments at which the menu is used: at the start, and from one loan
\* period later on
Times   == {c \in 1 .. MaxTime : c = 1 \/ c > LoanPeriod}

ISBNs   == {"i1", "i2"}
NoPtr   == [buf |-> 0, idx |-> 0]


VARIABLES
  inventory,   \* Seq of Book: [ISBN, isAvailable, dueDate, uid]; uid is a ghost identity
  capacity,    \* inventory.capacity()
  buf,         \* identity of the inventory's current buffer (changes on reallocation)
  users,       \* Seq of User: [borrowedBooks : Seq of Book*, fines]
  loans,       \* ghost, parallel to borrowedBooks: [uid, at] of the borrow behind each pointer
  nextUid,     \* ghost: identity of the next book constructed
  clock,       \* time(0)
  pending,     \* ghost: the loan opened by the latest operation, while only the clock moved since
  last         \* ghost: the latest operation and its outcome

vars == <<inventory, capacity, buf, users, loans, nextUid, clock, pending, last>>

Max(a, b) == IF a >= b THEN a ELSE b

RemoveAt(s, k) == [i \in 1 .. (Len(s) - 1) |-> IF i < k THEN s[i] ELSE s[i + 1]]

\* std::find / std::find_if: the first of the matching positions, 0 for end()
FirstIndex(matching) ==
  IF matching = {} THEN 0
  ELSE CHOOSE i \in matching : \A j \in matching : i <= j

\* Book::Book
Book(ISBN, uid) == [ISBN |-> ISBN, isAvailable |-> TRUE, dueDate |-> 0, uid |-> uid]

\* User::User
User == [borrowedBooks |-> <<>>, fines |-> 0]

\* &inventory[i]
AddressOf(i) == [buf |-> buf, idx |-> i]

\* the pointer still designates an element of the vector as it is now
Live(p) == p.buf = buf /\ p.idx >= 1 /\ p.idx <= Len(inventory)

NoLoan == [u |-> 0, p |-> NoPtr, at |-> 0, fines |-> 0, borrowedBooks |-> <<>>]

Idle == [op |-> "none", ok |-> FALSE, u |-> 0, amount |-> 0, rt |-> FALSE,
         held |-> 0]

Init ==
  /\ inventory = <<>>
  /\ capacity = 0
  /\ buf = 1
  /\ users = <<>>
  /\ loans = <<>>
  /\ nextUid = 1
  /\ clock = 1
  /\ pending = NoLoan
  /\ last = Idle

\* the Book* values in users[u].borrowedBooks
HeldPointers(u) ==
  {users[u].borrowedBooks[k] : k \in 1 .. Len(users[u].borrowedBooks)}

\* ---- Librarian -----------------------------------------------------------

\* growth of a full std::vector on emplace_back: doubling (libstdc++, libc++)
\* or one and a half times (MSVC), at least one more element
NewCapacities(c) == {Max(1, 2 * c), Max(c + 1, c + (c \div 2))}

\* Librarian::addBook: inventory.emplace_back(title, author, ISBN).  A full
\* vector moves to a new buffer, which leaves every Book* held by a user
\* pointing into the freed one.
addBook(ISBN) ==
  /\ inventory' = Append(inventory, Book(ISBN, nextUid))
  /\ nextUid' = nextUid + 1
  /\ IF Len(inventory) = capacity
     THEN /\ capacity' \in NewCapacities(capacity)
          /\ buf' = buf + 1
     ELSE UNCHANGED <<capacity, buf>>
  /\ pending' = NoLoan
  /\ last' = [Idle EXCEPT !.op = "addBook", !.ok = TRUE]
  /\ UNCHANGED <<users, loans, clock>>

\* Librarian::removeBook: find_if the first book with that ISBN and erase it;
\* the books behind it move one slot down in the same buffer.
removeBook(ISBN) ==
  LET it == FirstIndex({i \in 1 .. Len(inventory) : inventory[i].ISBN = ISBN}) IN
  /\ IF it # 0
     THEN /\ inventory' = RemoveAt(inventory, it)
          /\ last' = [Idle EXCEPT !.op = "removeBook", !.ok = TRUE]
     ELSE /\ inventory' = inventory
          /\ last' = [Idle EXCEPT !.op = "removeBook"]
  /\ pending' = NoLoan
  /\ UNCHANGED <<capacity, buf, users, loans, nextUid, clock>>

\* ---- User ----------------------------------------------------------------

DueDateOffByOne(now) == now + LoanPeriod + 1

\* time_t now = time(0); book->setDueDate(now + 5)
DueDateFor(now) == now + LoanPeriod

\* if (now > dueDate) fines += difftime(now, dueDate) / 1 * 2
FineFor(now, dueDate) == IF now > dueDate THEN (now - dueDate) * FineRate ELSE 0

PaymentAcceptedBelow(amount, fines) == amount < fines

PaymentAcceptedAlways(amount, fines) == TRUE

\* if (amount <= fines)
PaymentAccepted(amount, fines) == amount <= fines

CanBorrowUnchecked(book) == TRUE

\* if (book->getAvailability())
CanBorrow(book) == book.isAvailable

\* book->setAvailability(false); book->setDueDate(now + 5)
Lent(book, now) == [book EXCEPT !.isAvailable = FALSE, !.dueDate = DueDateFor(now)]

ReturnedKeepingDueDate(book) == [book EXCEPT !.isAvailable = TRUE]

\* book->setAvailability(true); ... book->setDueDate(0)
Returned(book) == [book EXCEPT !.isAvailable = TRUE, !.dueDate = 0]

FindFirstHeld(borrowedBooks, book) == IF borrowedBooks = <<>> THEN 0 ELSE 1

\* std::find(borrowedBooks.begin(), borrowedBooks.end(), book); 0 for end()
Find(borrowedBooks, book) ==
  FirstIndex({k \in 1 .. Len(borrowedBooks) : borrowedBooks[k] = book})

\* the amounts typed at "Enter amount to pay": a refund, nothing, a part,
\* the whole balance, and more than the balance
Amounts(fines) == {-FineRate, 0, FineRate, fines, fines + 1}

\* "fines" as a static member: one balance that every user shares
ChargeEveryone(us, u, amount) ==
  [v \in DOMAIN us |-> [us[v] EXCEPT !.fines = @ + amount]]

\* fines += ... / fines -= ... on the user the method is called on
Charge(us, u, amount) == [us EXCEPT ![u].fines = @ + amount]

\* User::borrowBook(Book* book); every caller passes &inventory[i]
borrowBook(u, p) ==
  /\ Live(p)
  /\ IF CanBorrow(inventory[p.idx])
     THEN /\ users' = [users EXCEPT ![u].borrowedBooks = Append(@, p)]
          /\ inventory' = [inventory EXCEPT ![p.idx] = Lent(@, clock)]
          /\ loans' = [loans EXCEPT ![u] = Append(@, [uid |-> inventory[p.idx].uid, at |-> clock])]
          /\ pending' = [u |-> u, p |-> p, at |-> clock, fines |-> users[u].fines,
                         borrowedBooks |-> users[u].borrowedBooks]
          /\ last' = [Idle EXCEPT !.op = "borrowBook", !.ok = TRUE]
     ELSE /\ UNCHANGED <<users, inventory, loans>>
          /\ pending' = NoLoan
          /\ last' = [Idle EXCEPT !.op = "borrowBook"]
  /\ UNCHANGED <<capacity, buf, nextUid, clock>>

\* What a Book* taken earlier designates now.  A slot of the current buffer
\* that is still in use holds whichever book the vector keeps there.  A slot
\* behind end() holds a destroyed Book (0: no live book).  A pointer into a
\* freed buffer designates no live book, unless the allocator handed the
\* block out again for the inventory, and then it may coincide with any slot.
Targets(p) ==
  IF Live(p) THEN {p.idx}
  ELSE IF p.buf = buf THEN {0}
  ELSE 0 .. Len(inventory)

\* book->getDueDate() through that pointer; any value when no live book is there
DueDatesRead(t) ==
  IF t # 0 THEN {inventory[t].dueDate}
  ELSE 0 .. DueDateFor(MaxTime)

\* User::returnBook(Book* book)
returnBook(u, p) ==
  LET it == Find(users[u].borrowedBooks, p) IN
  /\ IF it # 0
     THEN \E t \in Targets(p) : \E d \in DueDatesRead(t) :
          /\ users[u].fines + FineFor(clock, d) <= MaxFine
          /\ users' = [Charge(users, u, FineFor(clock, d))
                         EXCEPT ![u].borrowedBooks = RemoveAt(@, it)]
          /\ inventory' = IF t = 0 THEN inventory
                          ELSE [inventory EXCEPT ![t] = Returned(@)]
          /\ loans' = [loans EXCEPT ![u] = RemoveAt(@, it)]
          /\ last' = [Idle EXCEPT !.op = "returnBook", !.ok = TRUE,
                                  !.rt = (pending.u = u /\ pending.p = p),
                                  !.held = IF pending.u = u /\ pending.p = p
                                           THEN clock - pending.at ELSE 0]
     ELSE /\ UNCHANGED <<users, inventory, loans>>
          /\ last' = [Idle EXCEPT !.op = "returnBook"]
  /\ pending' = NoLoan
  /\ UNCHANGED <<capacity, buf, nextUid, clock>>

\* User::payFines(double amount)
payFines(u, amount) ==
  /\ IF PaymentAccepted(amount, users[u].fines)
     THEN /\ users[u].fines - amount <= MaxFine
          /\ users' = Charge(users, u, -amount)
          /\ last' = [Idle EXCEPT !.op = "payFines", !.ok = TRUE, !.u = u,
                                  !.amount = amount]
     ELSE /\ users' = users
          /\ last' = [Idle EXCEPT !.op = "payFines", !.u = u, !.amount = amount]
  /\ pending' = NoLoan
  /\ UNCHANGED <<inventory, capacity, buf, loans, nextUid, clock>>

\* ---- main: the menu loop --------------------------------------------------

\* a menu path that prints a message and changes nothing
Rejected(op) ==
  /\ last' = [Idle EXCEPT !.op = op]
  /\ pending' = NoLoan
  /\ UNCHANGED <<inventory, capacity, buf, users, loans, nextUid, clock>>

UserIndices == 0 .. MaxUsers
BookIndices == 0 .. MaxAdds

\* case 1: Add Book
AddBook == nextUid <= MaxAdds /\ \E ISBN \in ISBNs : addBook(ISBN)

\* case 2: Remove Book
RemoveBook == \E ISBN \in ISBNs : removeBook(ISBN)

\* case 4: Register User
RegisterUser ==
  /\ Len(users) < MaxUsers
  /\ users' = Append(users, User)
  /\ loans' = Append(loans, <<>>)
  /\ pending' = NoLoan
  /\ last' = [Idle EXCEPT !.op = "register", !.ok = TRUE]
  /\ UNCHANGED <<inventory, capacity, buf, nextUid, clock>>

BorrowSelectionClamped(userIndex, bookIndex) ==
  IF users = <<>> \/ inventory = <<>>
  THEN Rejected("borrowMenu")
  ELSE borrowBook(IF userIndex < Len(users) THEN userIndex + 1 ELSE Len(users),
                  AddressOf(IF bookIndex < Len(inventory) THEN bookIndex + 1
                            ELSE Len(inventory)))

\* case 5: Borrow Book, with the two indices typed
BorrowSelection(userIndex, bookIndex) ==
  IF users = <<>> \/ inventory = <<>>
  THEN Rejected("borrowMenu")
  ELSE IF userIndex < Len(users) /\ bookIndex < Len(inventory)
       THEN borrowBook(userIndex + 1, AddressOf(bookIndex + 1))
       ELSE Rejected("borrowMenu")

\* case 5: Borrow Book
BorrowBook ==
  \E userIndex \in UserIndices, bookIndex \in BookIndices :
    BorrowSelection(userIndex, bookIndex)

\* case 6: Return Book, with the two indices typed
ReturnSelection(userIndex, bookIndex) ==
  IF users = <<>>
  THEN Rejected("returnMenu")
  ELSE IF userIndex >= Len(users)
       THEN Rejected("returnMenu")
       ELSE LET borrowed == users[userIndex + 1].borrowedBooks IN
            IF borrowed = <<>>
            THEN Rejected("returnMenu")
            ELSE IF bookIndex < Len(borrowed)
                 THEN returnBook(userIndex + 1, borrowed[bookIndex + 1])
                 ELSE Rejected("returnMenu")

\* case 6: Return Book
ReturnBook ==
  \E userIndex \in UserIndices, bookIndex \in BookIndices :
    ReturnSelection(userIndex, bookIndex)

\* case 7: Pay Fines, with the index and the amount typed
PaySelection(userIndex, amount) ==
  IF users = <<>>
  THEN Rejected("payMenu")
  ELSE IF userIndex < Len(users)
       THEN payFines(userIndex + 1, amount)
       ELSE Rejected("payMenu")

\* case 7: Pay Fines
PayFines ==
  \E userIndex \in UserIndices :
  \E amount \in Amounts(IF userIndex < Len(users) THEN users[userIndex + 1].fines ELSE 0) :
    PaySelection(userIndex, amount)

\* the wall clock moves on between two menu choices
Tick ==
  /\ clock' \in {c \in Times : c > clock}
  /\ last' = Idle
  /\ UNCHANGED <<inventory, capacity, buf, users, loans, nextUid, pending>>

Next ==
  \/ AddBook
  \/ RemoveBook
  \/ RegisterUser
  \/ BorrowBook
  \/ ReturnBook
  \/ PayFines
  \/ Tick

Spec == Init /\ [][Next]_vars

\* ---- the menu at one moment, with one more book ---------------------------

\* case 1: Add Book, for a catalogue of up to MaxAdds + 1 books
AddOneMoreBook == nextUid <= MaxAdds + 1 /\ \E ISBN \in ISBNs : addBook(ISBN)

LendingNext ==
  \/ AddOneMoreBook
  \/ RemoveBook
  \/ RegisterUser
  \/ BorrowBook
  \/ ReturnBook

LendingSpec == Init /\ [][LendingNext]_vars

\* ---- the classes called directly, as a unit test of User and Librarian does

\* the Book* values a caller can hold: addresses of books, and pointers
\* taken earlier that some user still keeps
KnownPointers ==
  {AddressOf(i) : i \in 1 .. Len(inventory)}
    \cup UNION {HeldPointers(u) : u \in 1 .. Len(users)}

CallBorrowBook ==
  \E u \in 1 .. Len(users), i \in 1 .. Len(inventory) : borrowBook(u, AddressOf(i))

CallReturnBook ==
  \E u \in 1 .. Len(users) : \E p \in KnownPointers : returnBook(u, p)

CallPayFines ==
  \E u \in 1 .. Len(users) : \E amount \in Amounts(users[u].fines) : payFines(u, amount)

LedgerNext ==
  \/ AddBook
  \/ RemoveBook
  \/ RegisterUser
  \/ CallBorrowBook
  \/ CallReturnBook
  \/ CallPayFines
  \/ Tick

LedgerSpec == Init /\ [][LedgerNext]_vars

\* ---- properties -----------------------------------------------------------

UserIds == 1 .. Len(users)
BookIds == 1 .. Len(inventory)

\* C1: every book of the inventory has a due date (dueDate # 0) exactly when
\* it is not available.
DueDateIffCheckedOut ==
  \A i \in BookIds : (inventory[i].dueDate # 0) <=> ~inventory[i].isAvailable

\* C1 witness: a book has just been returned while another is still out.
ReturnedWhileAnotherIsOut ==
  /\ last.op = "returnBook" /\ last.ok
  /\ \E i, j \in BookIds :
       /\ inventory[i].isAvailable /\ inventory[i].dueDate = 0
       /\ ~inventory[j].isAvailable /\ inventory[j].dueDate # 0

\* C2: borrowBook of a book that is not available changes no book and no user.
BorrowUnavailableIsNoOp ==
  [][\A u \in UserIds, i \in BookIds :
       (~inventory[i].isAvailable /\ borrowBook(u, AddressOf(i)))
         => UNCHANGED <<inventory, users>>]_vars

\* C2 witness: a borrow has just been refused while a book is checked out.
BorrowRefused ==
  /\ last.op = "borrowBook" /\ ~last.ok
  /\ \E i \in BookIds : ~inventory[i].isAvailable
  /\ \E u \in UserIds : users[u].borrowedBooks # <<>>

\* C3: returnBook of a book that is not in the caller's borrowed list changes
\* no book and no user.
ReturnNotBorrowedIsNoOp ==
  [][\A u \in UserIds : \A p \in KnownPointers :
       (p \notin HeldPointers(u) /\ returnBook(u, p))
         => UNCHANGED <<inventory, users>>]_vars

\* C3 witness: a return has just been refused while another user holds a
\* book, which is still checked out.
ReturnRefused ==
  /\ last.op = "returnBook" /\ ~last.ok
  /\ \E u \in UserIds : \E p \in HeldPointers(u) :
       Live(p) /\ ~inventory[p.idx].isAvailable /\ inventory[p.idx].dueDate # 0

\* C4: every book referenced from a borrowed list is not available and is due
\* one loan period after the borrow that put it in the list.
BorrowedBooksAreCheckedOut ==
  \A u \in UserIds : \A k \in 1 .. Len(users[u].borrowedBooks) :
    LET p == users[u].borrowedBooks[k] IN
    /\ Live(p)
    /\ ~inventory[p.idx].isAvailable
    /\ inventory[p.idx].dueDate = loans[u][k].at + LoanPeriod

\* C5: a successful returnBook adds 2 * max(0, now - dueDate) to the user's
\* fines, dueDate being the due date set by the borrow of that book.
ReturnAddsOverdueFine ==
  [][\A u \in UserIds : \A p \in HeldPointers(u) :
       returnBook(u, p) =>
         LET it  == Find(users[u].borrowedBooks, p)
             due == loans[u][it].at + LoanPeriod
         IN users'[u].fines = users[u].fines + FineRate * Max(0, clock - due)]_vars

\* C6: borrowBook(u, b) followed by returnBook(u, b), with nothing but the
\* clock moving in between and not beyond the due date, leaves b available
\* with no due date and u's fines and borrowed list as before the borrow.
BorrowThenReturnRestores ==
  [][(last'.op = "returnBook" /\ last'.ok /\ last'.rt
        /\ clock <= pending.at + LoanPeriod)
       => /\ inventory'[pending.p.idx].isAvailable
          /\ inventory'[pending.p.idx].dueDate = 0
          /\ users'[pending.u].fines = pending.fines
          /\ users'[pending.u].borrowedBooks = pending.borrowedBooks]_vars

\* C7: paying exactly the balance succeeds and leaves 0; paying more than the
\* balance is refused and leaves the balance as it was.
PayFinesBoundary ==
  [][\A u \in UserIds : \A amount \in Amounts(users[u].fines) :
       payFines(u, amount) =>
         /\ amount = users[u].fines => (last'.ok /\ users'[u].fines = 0)
         /\ amount > users[u].fines => (~last'.ok /\ users' = users)]_vars

\* C7 witness: a positive balance has just been paid in full.
PaidInFull ==
  /\ last.op = "payFines" /\ last.ok /\ last.amount > 0
  /\ users[last.u].fines = 0

\* C8: payFines changes the balance only for 0 < amount <= balance.
PayFinesNeedsPositiveAmount ==
  [][\A u \in UserIds : \A amount \in Amounts(users[u].fines) :
       (payFines(u, amount) /\ users'[u].fines # users[u].fines)
         => (0 < amount /\ amount <= users[u].fines)]_vars

\* C9: no fine balance is ever negative.
FinesNonNegative == \A u \in UserIds : users[u].fines >= 0

\* C9 witness: a negative amount has just been accepted as a payment.
NegativeAmountPaid ==
  /\ last.op = "payFines" /\ last.ok /\ last.amount < 0
  /\ users[last.u].fines > 0

\* C10: every book that a user has borrowed and not returned is still in the
\* inventory.
BorrowedBooksStayInInventory ==
  \A u \in UserIds : \A k \in 1 .. Len(loans[u]) :
    \E i \in BookIds : inventory[i].uid = loans[u][k].uid

\* C11: the availability and the due date of a book that stays in the
\* inventory change only in a successful borrowBook of that book (it becomes
\* checked out) and in a successful returnBook of that book (it becomes
\* available); the loan opened or closed by the step is the loan of that book.
BookChangesOnlyByItsOwnLoan ==
  [][\A i \in BookIds : \A j \in 1 .. Len(inventory') :
       (/\ inventory[i].uid = inventory'[j].uid
        /\ \/ inventory[i].isAvailable # inventory'[j].isAvailable
           \/ inventory[i].dueDate # inventory'[j].dueDate)
       => \/ /\ last'.op = "borrowBook" /\ last'.ok
             /\ inventory[i].isAvailable /\ ~inventory'[j].isAvailable
             /\ \E u \in UserIds :
                  loans'[u] = Append(loans[u], [uid |-> inventory[i].uid, at |-> clock])
          \/ /\ last'.op = "returnBook" /\ last'.ok
             /\ ~inventory[i].isAvailable /\ inventory'[j].isAvailable
             /\ \E u \in UserIds : \E k \in 1 .. Len(loans[u]) :
                  /\ loans[u][k].uid = inventory[i].uid
                  /\ loans'[u] = RemoveAt(loans[u], k)]_vars

\* C12: no borrowed list holds the same Book* twice.
NoDuplicateReference ==
  \A u \in UserIds : \A k, l \in 1 .. Len(users[u].borrowedBooks) :
    k # l => users[u].borrowedBooks[k] # users[u].borrowedBooks[l]

\* C13: no two books of the inventory have the same ISBN.
ISBNIsUniqueKey ==
  \A i, j \in BookIds : i # j => inventory[i].ISBN # inventory[j].ISBN

\* C14 as claimed: a book borrowed at t and returned by the same user at
\* t + 6, with nothing but the clock moving in between, is available again
\* and the user is fined for at least 5 seconds, that is at least 10.
ReturnAfterSixFinesAtLeastTen ==
  [][(last'.op = "returnBook" /\ last'.ok /\ last'.rt
        /\ clock = pending.at + LoanPeriod + 1)
       => /\ inventory'[pending.p.idx].isAvailable
          /\ users'[pending.u].fines - pending.fines >= LoanPeriod * FineRate]_vars

\* C14 as amended: a successful borrowBook at t leaves the book checked out
\* and due at t + 5; its return by the same user at t + 6, with nothing but
\* the clock moving in between, leaves it available with no due date and
\* fines the user for 1 second, that is 2.
ReturnAfterSixFinesTwo ==
  [][/\ (last'.op = "borrowBook" /\ last'.ok)
          => /\ ~inventory'[pending'.p.idx].isAvailable
             /\ inventory'[pending'.p.idx].dueDate = clock + LoanPeriod
             /\ \E k \in 1 .. Len(users'[pending'.u].borrowedBooks) :
                  users'[pending'.u].borrowedBooks[k] = pending'.p
     /\ (last'.op = "returnBook" /\ last'.ok /\ last'.rt
           /\ clock = pending.at + LoanPeriod + 1)
          => /\ inventory'[pending.p.idx].isAvailable
             /\ inventory'[pending.p.idx].dueDate = 0
             /\ users'[pending.u].fines = pending.fines + FineRate]_vars

\* C14 witness: a book has just been returned 6 seconds after its borrow by
\* the user who borrowed it, who now owes a fine.
ReturnedSixSecondsAfterBorrow ==
  /\ last.op = "returnBook" /\ last.ok /\ last.rt
  /\ last.held = LoanPeriod + 1
  /\ \E u \in UserIds : users[u].fines >= FineRate

\* C15: a Borrow, Return or Pay Fines menu choice with a user index or a
\* book index out of range calls no method and changes no book and no user.
InvalidSelectionRejected ==
  [][/\ last'.op \in {"borrowMenu", "borrowBook"} =>
          \A ui \in UserIndices, bi \in BookIndices :
            ((ui >= Len(users) \/ bi >= Len(inventory)) /\ BorrowSelection(ui, bi))
              => (last'.op = "borrowMenu"
                    /\ UNCHANGED <<inventory, capacity, buf, users>>)
     /\ last'.op \in {"returnMenu", "returnBook"} =>
          \A ui \in UserIndices, bi \in BookIndices :
            ((ui >= Len(users) \/ bi >= Len(users[ui + 1].borrowedBooks))
               /\ ReturnSelection(ui, bi))
              => (last'.op = "returnMenu"
                    /\ UNCHANGED <<inventory, capacity, buf, users>>)
     /\ last'.op \in {"payMenu", "payFines"} =>
          \A ui \in UserIndices : \A amount \in Amounts(0) :
            (ui >= Len(users) /\ PaySelection(ui, amount))
              => (last'.op = "payMenu"
                    /\ UNCHANGED <<inventory, capacity, buf, users>>)]_vars

\* C15 witness: a Borrow choice has just been refused although there are
\* users and books, one of them checked out.
BorrowSelectionRefused ==
  /\ last.op = "borrowMenu"
  /\ users # <<>> /\ inventory # <<>>
  /\ \E i \in BookIds : ~inventory[i].isAvailable

\* C16: mutual exclusion of loans — in every reachable state a given book is
\* referenced from the borrowed list of at most one user (no Book* is held
\* by two different users).
LoansMutuallyExclusive ==
  \A u, v \in UserIds :
    u # v => HeldPointers(u) \cap HeldPointers(v) = {}

\* C17: ordering of loans — every successful returnBook(u, b) is preceded by
\* a successful borrowBook(u, b) of that same book by that same user with no
\* successful return of b in between: a book that a return by u makes
\* available is one of u's open loans.
ReturnFollowsOwnBorrow ==
  [][(last'.op = "returnBook" /\ last'.ok) =>
       \A u \in UserIds :
         users'[u].borrowedBooks # users[u].borrowedBooks =>
           \A i \in BookIds :
             (~inventory[i].isAvailable /\ inventory'[i].isAvailable)
               => \E k \in 1 .. Len(loans[u]) :
                    loans[u][k].uid = inventory[i].uid]_vars

\* C18: references held by users stay stable under catalog changes — after
\* addBook, or after removeBook of a book other than b, every reference to b
\* in a user's borrowed list still denotes the same book b, with the same
\* identifier, availability and due date.
ReferencesStableUnderCatalogChange ==
  [][(last'.op \in {"addBook", "removeBook"}) =>
       \A u \in UserIds : \A k \in 1 .. Len(users[u].borrowedBooks) :
         LET p == users[u].borrowedBooks[k]
         IN  (/\ Live(p)
              /\ \E j \in 1 .. Len(inventory') :
                   inventory'[j].uid = inventory[p.idx].uid)
               => /\ users'[u].borrowedBooks[k] = p
                  /\ p.buf = buf'
                  /\ p.idx <= Len(inventory')
                  /\ inventory'[p.idx] = inventory[p.idx]]_vars

\* C19: frame of the ledger operations — borrowBook, returnBook and payFines
\* invoked for user u leave every other user's borrowed list and fine balance
\* unchanged; borrowBook leaves every fine balance unchanged; payFines leaves
\* u's borrowed list and every book's availability and due date unchanged.
LedgerFrame ==
  [][/\ last'.op = "borrowBook" =>
          \A u \in UserIds : \A i \in BookIds :
            borrowBook(u, AddressOf(i)) =>
              /\ \A v \in UserIds \ {u} : users'[v] = users[v]
              /\ \A v \in UserIds : users'[v].fines = users[v].fines
     /\ last'.op = "returnBook" =>
          \A u \in UserIds : \A p \in KnownPointers :
            returnBook(u, p) =>
              \A v \in UserIds \ {u} : users'[v] = users[v]
     /\ last'.op = "payFines" =>
          \A u \in UserIds : \A amount \in Amounts(users[u].fines) :
            payFines(u, amount) =>
              /\ \A v \in UserIds \ {u} : users'[v] = users[v]
              /\ users'[u].borrowedBooks = users[u].borrowedBooks
              /\ Len(inventory') = Len(inventory)
              /\ \A i \in BookIds :
                   /\ inventory'[i].isAvailable = inventory[i].isAvailable
                   /\ inventory'[i].dueDate = inventory[i].dueDate]_vars

\* C19 witness: a user has just paid part of a balance while still holding a
\* book, and another user holds a book and owes a fine as well.
PaidWhileAnotherOwes ==
  /\ last.op = "payFines" /\ last.ok /\ last.amount > 0
  /\ users[last.u].borrowedBooks # <<>>
  /\ \E v \in UserIds \ {last.u} :
       users[v].fines > 0 /\ users[v].borrowedBooks # <<>>


====
